---- MODULE Spec2Model ----
(***************************************************************************)
(* Adaptive Learning State Engine of app.py: the learning-style estimator  *)
(* (QuantumLearningSystem), the adaptation rule engine                     *)
(* (AdaptiveContentGenerator), the emotion inference path and the request  *)
(* handlers that drive them.                                               *)
(*                                                                         *)
(* Numbers.  The program computes in binary floating point.  The model     *)
(* keeps every probability as an integer count of 1/SCALE units and rounds *)
(* each multiplication and each division to the nearest unit, so that the  *)
(* rounding error of every arithmetic step of the code is present in the   *)
(* model (one unit of 1/SCALE here, one unit in the last place there).     *)
(* Rates of the requests (success, engagement) are in tenths, emotion      *)
(* scores in hundredths.                                                    *)
(***************************************************************************)
EXTENDS Integers, Sequences, FiniteSets, Bags, TLC

\* Units per 0.01 of probability: the resolution of the fixed-point numbers.
Resolution == 100
\* Units of a probability of 1.0.
SCALE == 100 * Resolution

\* Requests served in one run of the broad and of the deep specification.
MaxRequests == 3
MaxDeepRequests == 6
\* Quantum updates in one run of the adaptation specification.
MaxAdaptRequests == 1
\* Quantum updates in one run of the log specification.
MaxLogRequests == 11
\* Updates served before the two concurrent ones of the race specification.
MaxWarmUps == 5
\* Quantum updates in one run of the loop specification.
MaxLoopRequests == 3
\* Quantum updates in one run of the long-run specification.
MaxLongRequests == 23
\* Those of them that are of any style and success.
MaxMixedRequests == 2
\* Quantum updates in one run of the history specification: two more than
\* the query of student-analytics returns.
MaxHistoryRequests == 52

VARIABLES
    learning_styles,   \* QuantumLearningSystem.learning_styles: style -> units
    collapsed,         \* QuantumLearningSystem.collapsed
    optimal_style,     \* QuantumLearningSystem.optimal_style (None until a collapse)
    confidence,        \* QuantumLearningSystem.confidence, in units
    interactions,      \* rows of the interactions table, as a bag of records
    request,           \* the request or event being served
    response,          \* the response or emitted event of that request
    requests,          \* number of requests served so far (bounds the run)
    calls,             \* the update calls in flight, one per request thread
    background         \* the thread of background_analytics_processor

vars == <<learning_styles, collapsed, optimal_style, confidence,
          interactions, request, response, requests, calls, background>>

estimator == <<learning_styles, collapsed, optimal_style, confidence>>

\* The threads next to the one serving a request as a whole.
threads == <<calls, background>>

\* Python's None, and a key absent from the request's JSON object.
None == "None"
NoKey == "NoKey"
\* The same for the numeric fields, which TLC compares with integers only: an
\* absent rate, and a rate that arithmetic rejects (null, a string), lie
\* below every rate.
NoRate == 0 - 1
BadRate == 0 - 2

\* The keys of learning_styles in dict (insertion) order.
StyleOrder == <<"visual", "auditory", "kinesthetic">>
Styles == {"visual", "auditory", "kinesthetic"}

VisualTypes == {"image_click", "visual_content"}
AuditoryTypes == {"audio_played", "voice_response"}
KinestheticTypes == {"interactive_activity", "hands_on"}
RecognizedTypes == VisualTypes \cup AuditoryTypes \cup KinestheticTypes

\* dict.get(key, default): the default only when the key is absent.
Get(value, default) == IF value = NoKey THEN default ELSE value
GetRate(value, default) == IF value = NoRate THEN default ELSE value

\* The style an interaction type reinforces, None for every other type.
StyleOf(interaction_type) ==
    IF interaction_type \in VisualTypes THEN "visual"
    ELSE IF interaction_type \in AuditoryTypes THEN "auditory"
    ELSE IF interaction_type \in KinestheticTypes THEN "kinesthetic"
    ELSE None

\* x / y rounded to the nearest unit (y > 0, x >= 0).
RoundDiv(x, y) == (2 * x + y) \div (2 * y)

\* Reinforce with the coefficient 0.5 in the place of 0.3.
ReinforceHalf(p, success_rate) == RoundDiv(p * (100 + 5 * success_rate), 100)

\* Reinforce that drops the success rate.
ReinforceNone(p, success_rate) == p

\* p * (1 + success_rate * 0.3), success_rate in tenths.
Reinforce(p, success_rate) == RoundDiv(p * (100 + 3 * success_rate), 100)

\* sum(self.learning_styles.values())
Total(ls) == ls["visual"] + ls["auditory"] + ls["kinesthetic"]

\* The probabilities after the reinforcement step of update_quantum_state.
Reinforced(ls, interaction_type, success_rate) ==
    IF StyleOf(interaction_type) = None THEN ls
    ELSE [ls EXCEPT ![StyleOf(interaction_type)] = Reinforce(@, success_rate)]

\* Normalize by the total of before the reinforcement (1.0), not the current one.
NormalizeStale(ls) == [style \in Styles |-> RoundDiv(ls[style] * SCALE, SCALE)]

\* The normalisation loop: every entry divided by the total.
Normalize(ls) == [style \in Styles |-> RoundDiv(ls[style] * SCALE, Total(ls))]

\* The probabilities update_quantum_state leaves behind.
UpdatedStyles(ls, interaction_type, success_rate) ==
    Normalize(Reinforced(ls, interaction_type, success_rate))

\* max(self.learning_styles.values())
MaxProb(ls) ==
    CHOOSE p \in {ls[style] : style \in Styles} : \A style \in Styles : ls[style] <= p

\* The last key, in dict order, whose value is maximal.
ArgMaxLast(ls) ==
    StyleOrder[CHOOSE i \in 1..3 :
        /\ ls[StyleOrder[i]] = MaxProb(ls)
        /\ \A j \in (i + 1)..3 : ls[StyleOrder[j]] < MaxProb(ls)]

\* max(self.learning_styles.items(), key=...)[0]: the first key, in dict
\* order, whose value is maximal.
ArgMax(ls) ==
    StyleOrder[CHOOSE i \in 1..3 :
        /\ ls[StyleOrder[i]] = MaxProb(ls)
        /\ \A j \in 1..(i - 1) : ls[StyleOrder[j]] < MaxProb(ls)]

\* The threshold test with >= in the place of >.
ReachesThreshold(p) == p * 100 >= 65 * SCALE

\* max_prob > 0.65
ExceedsThreshold(p) == p * 100 > 65 * SCALE

\* The collapse test without its "not self.collapsed".
CollapseDueAgain(ls, already) == ExceedsThreshold(MaxProb(ls))

\* The condition under which update_quantum_state calls trigger_collapse.
CollapseDue(ls, already) == ExceedsThreshold(MaxProb(ls)) /\ ~already

\* get_state()
get_state ==
    [learning_styles |-> learning_styles, collapsed |-> collapsed,
     optimal_style |-> optimal_style, confidence |-> confidence]

NoRequest == [op |-> "none"]
NoResponse == [op |-> "none", status |-> 0]

\* The request threads, and a thread that is serving no quantum-update: pc is
\* the place of the thread in update_quantum_state, the other fields are the
\* locals of the call (value is the probability read for the operation in
\* progress, style_index the place of the normalisation loop in StyleOrder)
\* and what the call has met: began_with, the probabilities when it began;
\* alone, whether no other call was in flight during it; fired, whether it
\* called trigger_collapse.
Threads == {"t1", "t2"}
IdleCall ==
    [pc |-> "idle", data |-> [json |-> FALSE], interaction_type |-> "unknown",
     success_rate |-> 0, value |-> 0, total |-> 0, style_index |-> 0,
     max_prob |-> 0, began_with |-> <<>>, alone |-> TRUE, fired |-> FALSE]

\* Seconds of the sleep that opens a cycle of the background loop, and of
\* the sleep after a failed cycle.
CycleSeconds == 30
BackoffSeconds == 60

\* The background thread before its first cycle: waited is the time slept
\* since the last scan of the log, failed whether that scan raised, alerts
\* the number of students its last message counted.
BackgroundStart == [pc |-> "sleep", waited |-> 0, failed |-> FALSE, alerts |-> 0]

\* QuantumLearningSystem.__init__ and the empty interactions table.
Init ==
    /\ learning_styles = [style \in Styles |->
           IF style = "kinesthetic" THEN 34 * Resolution ELSE 33 * Resolution]
    /\ collapsed = FALSE
    /\ optimal_style = None
    /\ confidence = 0
    /\ interactions = EmptyBag
    /\ request = NoRequest
    /\ response = NoResponse
    /\ requests = 0
    /\ calls = [t \in Threads |-> IdleCall]
    /\ background = BackgroundStart

\* trigger_collapse that keeps the result of an earlier collapse.
trigger_collapse_once(ls) ==
    /\ collapsed' = TRUE
    /\ optimal_style' = IF collapsed THEN optimal_style ELSE ArgMax(ls)
    /\ confidence' = IF collapsed THEN confidence ELSE ls[ArgMax(ls)]

\* trigger_collapse that sets the flag and the confidence only.
trigger_collapse_flag_only(ls) ==
    /\ collapsed' = TRUE
    /\ optimal_style' = optimal_style
    /\ confidence' = ls[ArgMax(ls)]

\* trigger_collapse on the probabilities ls.
trigger_collapse(ls) ==
    /\ collapsed' = TRUE
    /\ optimal_style' = ArgMax(ls)
    /\ confidence' = ls[ArgMax(ls)]

\* update_quantum_state that takes the collapse back below the threshold.
update_quantum_state_recheck(interaction_type, success_rate) ==
    LET new == UpdatedStyles(learning_styles, interaction_type, success_rate) IN
    /\ learning_styles' = new
    /\ IF ExceedsThreshold(MaxProb(new))
       THEN trigger_collapse(new)
       ELSE collapsed' = FALSE /\ optimal_style' = None /\ confidence' = 0

\* update_quantum_state(interaction_data) with numeric success.
update_quantum_state(interaction_type, success_rate) ==
    LET new == UpdatedStyles(learning_styles, interaction_type, success_rate) IN
    /\ learning_styles' = new
    /\ IF CollapseDue(new, collapsed)
       THEN trigger_collapse(new)
       ELSE UNCHANGED <<collapsed, optimal_style, confidence>>

\* The row store_interaction inserts, reduced to the columns the program reads
\* back (student_id, success_rate, engagement_level).
InteractionRow(student_id, success_rate, engagement_level) ==
    [student_id |-> student_id, success_rate |-> success_rate,
     engagement_level |-> engagement_level]

\* store_interaction: the insert, or nothing when the database raises.
store_interaction(row, db_ok) ==
    interactions' = IF db_ok THEN interactions (+) SetToBag({row}) ELSE interactions

\* A quantum-update request: its JSON object, NoJson for a body that is none,
\* and whether the database accepts the insert.
QuantumUpdateRequest(student_id, interaction_type, success_rate, engagement, db_ok) ==
    [op |-> "quantum_update", json |-> TRUE, student_id |-> student_id,
     interaction_type |-> interaction_type, success_rate |-> success_rate,
     engagement_level |-> engagement, db_ok |-> db_ok]
NoJson == [op |-> "quantum_update", json |-> FALSE]

\* POST /api/quantum-update.
quantum_update_endpoint(data) ==
    /\ UNCHANGED threads
    /\ request' = data
    /\ requests' = requests + 1
    /\ IF ~data.json
       THEN \* data.get on None raises: the handler answers 500
            /\ UNCHANGED <<estimator, interactions>>
            /\ response' = [op |-> "quantum_update", status |-> 500]
       ELSE LET type == Get(data.interaction_type, "unknown")
                success == GetRate(data.success_rate, 5)
                engagement == GetRate(data.engagement_level, 5)
            IN
            IF StyleOf(type) # None /\ success = BadRate
            THEN \* success_rate * 0.3 raises before anything is written
                 /\ UNCHANGED <<estimator, interactions>>
                 /\ response' = [op |-> "quantum_update", status |-> 500]
            ELSE /\ update_quantum_state(type, success)
                 /\ store_interaction(
                        InteractionRow(Get(data.student_id, "anonymous"), success,
                                       engagement), data.db_ok)
                 /\ response' = [op |-> "quantum_update", status |-> 200,
                                 quantum_state |-> get_state']

\* The quantum_collapse socket event.
handle_quantum_collapse ==
    /\ trigger_collapse(learning_styles)
    /\ UNCHANGED <<learning_styles, interactions, requests, threads>>
    /\ request' = [op |-> "quantum_collapse"]
    /\ response' = [op |-> "quantum_collapsed", status |-> 200,
                    collapse_data |-> [collapsed |-> TRUE,
                        optimal_style |-> optimal_style',
                        confidence |-> confidence',
                        learning_styles |-> learning_styles]]

(***************************************************************************)
(* Long runs.  The rounding of binary floating point is relative to the    *)
(* magnitude of the number: added to a probability near 1, a probability   *)
(* below half the spacing of the numbers near 1 is lost.  The rounding of  *)
(* the fixed point above is absolute and never loses a unit, which is as   *)
(* the program behaves while the three probabilities are within a few      *)
(* orders of magnitude of each other.  Where one style is reinforced over  *)
(* and over they are not, and the numbers are kept as the program keeps    *)
(* them, to a fixed number of significant digits: Digits decimal digits,   *)
(* in units of 1/SCALE, the unit being the least positive number (as the   *)
(* least subnormal is).                                                    *)
(***************************************************************************)
Digits == 3

\* The spacing of the representable numbers around n units.
RECURSIVE Spacing(_)
Spacing(n) == IF n < 10 ^ Digits THEN 1 ELSE 10 * Spacing(n \div 10)

\* x / y rounded to the nearest representable number.
FloatDiv(x, y) == LET spacing == Spacing(x \div y) IN spacing * RoundDiv(x, y * spacing)
FloatAdd(x, y) == FloatDiv(x + y, 1)

\* p * (1 + success_rate * 0.3)
FloatReinforce(p, success_rate) == FloatDiv(p * (100 + 3 * success_rate), 100)
FloatReinforced(ls, interaction_type, success_rate) ==
    IF StyleOf(interaction_type) = None THEN ls
    ELSE [ls EXCEPT ![StyleOf(interaction_type)] = FloatReinforce(@, success_rate)]

\* sum(self.learning_styles.values()): the values added in dict order.
FloatTotal(ls) == FloatAdd(FloatAdd(ls["visual"], ls["auditory"]), ls["kinesthetic"])

\* The loop dividing by the total of the prior (1.0), not by the current one.
FloatNormalizeStale(ls) == [style \in Styles |-> FloatDiv(ls[style] * SCALE, SCALE)]

\* The normalisation loop.
FloatNormalize(ls) ==
    [style \in Styles |-> FloatDiv(ls[style] * SCALE, FloatTotal(ls))]

FloatUpdatedStyles(ls, interaction_type, success_rate) ==
    FloatNormalize(FloatReinforced(ls, interaction_type, success_rate))

\* update_quantum_state and POST /api/quantum-update for a request with a
\* JSON object and a numeric rate, in these numbers.
float_update_quantum_state(interaction_type, success_rate) ==
    LET new == FloatUpdatedStyles(learning_styles, interaction_type, success_rate) IN
    /\ learning_styles' = new
    /\ IF CollapseDue(new, collapsed)
       THEN trigger_collapse(new)
       ELSE UNCHANGED <<collapsed, optimal_style, confidence>>
float_quantum_update_endpoint(data) ==
    /\ UNCHANGED threads
    /\ request' = data
    /\ requests' = requests + 1
    /\ float_update_quantum_state(Get(data.interaction_type, "unknown"),
                                  GetRate(data.success_rate, 5))
    /\ store_interaction(
           InteractionRow(Get(data.student_id, "anonymous"),
                          GetRate(data.success_rate, 5),
                          GetRate(data.engagement_level, 5)), data.db_ok)
    /\ response' = [op |-> "quantum_update", status |-> 200,
                    quantum_state |-> get_state']

(***************************************************************************)
(* update_quantum_state run by two request threads at once.  Neither the   *)
(* handlers nor the estimator take a lock, and the interpreter switches    *)
(* threads between bytecodes: a step of a thread is one read or one write  *)
(* of the shared estimator, the calls sum(), max() and max(items) being    *)
(* one step each.                                                          *)
(***************************************************************************)
InFlight(call) == call.pc \notin {"idle", "store", "done"}
SetCall(t, call) == calls' = [calls EXCEPT ![t] = call]

\* Lines 359-364 and 129-131: thread t takes a request with a JSON object
\* and a numeric rate, and enters update_quantum_state.
begin_update(t, data) ==
    LET type == Get(data.interaction_type, "unknown")
        rate == GetRate(data.success_rate, 5)
        overlap == \E other \in Threads \ {t} : InFlight(calls[other])
    IN  /\ calls[t].pc = "idle"
        /\ data.json /\ rate # BadRate
        /\ calls' = [other \in Threads |->
               IF other = t
               THEN [IdleCall EXCEPT
                        !.pc = IF StyleOf(type) = None THEN "sum" ELSE "read",
                        !.data = data, !.interaction_type = type,
                        !.success_rate = rate, !.began_with = learning_styles,
                        !.alone = ~overlap]
               ELSE [calls[other] EXCEPT !.alone = @ /\ ~InFlight(calls[other])]]
        /\ request' = data
        /\ response' = NoResponse
        /\ UNCHANGED <<estimator, interactions, requests, background>>

\* self.learning_styles[style] *= ...: the read of the entry
read_style(t) ==
    /\ calls[t].pc = "read"
    /\ SetCall(t, [calls[t] EXCEPT !.pc = "write",
                   !.value = learning_styles[StyleOf(calls[t].interaction_type)]])
    /\ UNCHANGED <<estimator, interactions, request, response, requests, background>>

\* ... and the write of the product.
write_style(t) ==
    /\ calls[t].pc = "write"
    /\ learning_styles' =
           [learning_styles EXCEPT ![StyleOf(calls[t].interaction_type)] =
               Reinforce(calls[t].value, calls[t].success_rate)]
    /\ SetCall(t, [calls[t] EXCEPT !.pc = "sum"])
    /\ UNCHANGED <<collapsed, optimal_style, confidence, interactions, request,
                   response, requests, background>>

\* total = sum(self.learning_styles.values())
sum_styles(t) ==
    /\ calls[t].pc = "sum"
    /\ SetCall(t, [calls[t] EXCEPT !.pc = "divide_read", !.style_index = 1,
                   !.total = Total(learning_styles)])
    /\ UNCHANGED <<estimator, interactions, request, response, requests, background>>

\* self.learning_styles[style] /= total: the read of the entry
read_for_divide(t) ==
    /\ calls[t].pc = "divide_read"
    /\ SetCall(t, [calls[t] EXCEPT !.pc = "divide_write",
                   !.value = learning_styles[StyleOrder[calls[t].style_index]]])
    /\ UNCHANGED <<estimator, interactions, request, response, requests, background>>

\* A divisor summed anew for every entry.
FreshDivisor(call, ls) == Total(ls)

\* The divisor of the loop: the total summed before it.
Divisor(call, ls) == call.total

\* ... and the write of the quotient, which ends the iteration.
write_divided(t) ==
    /\ calls[t].pc = "divide_write"
    /\ learning_styles' =
           [learning_styles EXCEPT ![StyleOrder[calls[t].style_index]] =
               RoundDiv(calls[t].value * SCALE, Divisor(calls[t], learning_styles))]
    /\ SetCall(t, IF calls[t].style_index < Len(StyleOrder)
               THEN [calls[t] EXCEPT !.pc = "divide_read", !.style_index = @ + 1]
               ELSE [calls[t] EXCEPT !.pc = "max"])
    /\ UNCHANGED <<collapsed, optimal_style, confidence, interactions, request,
                   response, requests, background>>

\* max_prob = max(self.learning_styles.values())
take_max(t) ==
    /\ calls[t].pc = "max"
    /\ SetCall(t, [calls[t] EXCEPT !.pc = "check", !.max_prob = MaxProb(learning_styles)])
    /\ UNCHANGED <<estimator, interactions, request, response, requests, background>>

\* if max_prob > 0.65 and not self.collapsed: self.trigger_collapse()
check_collapse(t) ==
    /\ calls[t].pc = "check"
    /\ SetCall(t, IF ExceedsThreshold(calls[t].max_prob) /\ ~collapsed
               THEN [calls[t] EXCEPT !.pc = "set_collapsed", !.fired = TRUE]
               ELSE [calls[t] EXCEPT !.pc = "store"])
    /\ UNCHANGED <<estimator, interactions, request, response, requests, background>>

\* The three assignments of trigger_collapse.
set_collapsed(t) ==
    /\ calls[t].pc = "set_collapsed"
    /\ collapsed' = TRUE
    /\ SetCall(t, [calls[t] EXCEPT !.pc = "set_optimal_style"])
    /\ UNCHANGED <<learning_styles, optimal_style, confidence, interactions,
                   request, response, requests, background>>
set_optimal_style(t) ==
    /\ calls[t].pc = "set_optimal_style"
    /\ optimal_style' = ArgMax(learning_styles)
    /\ SetCall(t, [calls[t] EXCEPT !.pc = "set_confidence"])
    /\ UNCHANGED <<learning_styles, collapsed, confidence, interactions,
                   request, response, requests, background>>
set_confidence(t) ==
    /\ calls[t].pc = "set_confidence"
    /\ confidence' = learning_styles[optimal_style]
    /\ SetCall(t, [calls[t] EXCEPT !.pc = "store"])
    /\ UNCHANGED <<learning_styles, collapsed, optimal_style, interactions,
                   request, response, requests, background>>

\* Lines 369-381: the thread stores the interaction and answers.
respond(t) ==
    LET data == calls[t].data IN
    /\ calls[t].pc = "store"
    /\ store_interaction(
           InteractionRow(Get(data.student_id, "anonymous"), calls[t].success_rate,
                          GetRate(data.engagement_level, 5)), data.db_ok)
    /\ request' = data
    /\ response' = [op |-> "quantum_update", status |-> 200,
                    quantum_state |-> get_state]
    /\ requests' = requests + 1
    /\ SetCall(t, [calls[t] EXCEPT !.pc = "done"])
    /\ UNCHANGED <<estimator, background>>

(***************************************************************************)
(* AdaptiveContentGenerator.  A directive is the text of one adaptation:   *)
(* which literal it is, the word formatted into it (the encouragement      *)
(* phrase or the optimal style, "" for none) and the percentage formatted  *)
(* into it (0 for none).                                                   *)
(***************************************************************************)
Directive(text, word, percent) == [text |-> text, word |-> word, percent |-> percent]
Plain(text) == Directive(text, "", 0)

\* punjabi_phrases['encouragement'], from which get_random_phrase draws.
EncouragementPhrases == {"doing_great", "well_done", "you_can_do_this"}

\* An emotion key absent from the emotions dict (scores are integers).
NoScore == 0 - 1
\* emotions.get(key, 0), in hundredths.
EmotionScore(emotions, key) == IF emotions[key] = NoScore THEN 0 ELSE emotions[key]

\* f"{confidence:.0%}": the confidence as a whole percentage.
FormatPercent(p) == RoundDiv(p * 100, SCALE)

\* The frustration guard with >= in the place of >.
IsFrustratedAtLeast(emotions) == EmotionScore(emotions, "frustrated") >= 60

\* The guards of the four emotion rules.
IsFrustrated(emotions) == EmotionScore(emotions, "frustrated") > 60
IsBored(emotions) == EmotionScore(emotions, "bored") > 60
IsConfused(emotions) == EmotionScore(emotions, "confused") > 70
IsEngaged(emotions) == EmotionScore(emotions, "engaged") > 80

\* if emotions.get('frustrated', 0) > 0.6: adaptations.extend([...])
FrustratedRule(adaptations, emotions, phrase) ==
    IF IsFrustrated(emotions)
    THEN adaptations \o <<Plain("calmer_voice_tone"),
                          Directive("encouragement", phrase, 0),
                          Plain("mindful_break")>>
    ELSE adaptations

\* if emotions.get('bored', 0) > 0.6: adaptations.extend([...])
BoredRule(adaptations, emotions) ==
    IF IsBored(emotions)
    THEN adaptations \o <<Plain("gamification"), Plain("farming_simulation"),
                          Plain("badges_leaderboard")>>
    ELSE adaptations

\* The confusion rule assigning its list where the code extends with it.
ConfusedRuleAssigns(adaptations, emotions) ==
    IF EmotionScore(emotions, "confused") > 70
    THEN <<Plain("rural_analogies"), Plain("punjabi_step_by_step"),
           Plain("offline_review")>>
    ELSE adaptations

\* if emotions.get('confused', 0) > 0.7: adaptations.extend([...])
ConfusedRule(adaptations, emotions) ==
    IF IsConfused(emotions)
    THEN adaptations \o <<Plain("rural_analogies"), Plain("punjabi_step_by_step"),
                          Plain("offline_review")>>
    ELSE adaptations

\* if emotions.get('engaged', 0) > 0.8: adaptations.extend([...])
EngagedRule(adaptations, emotions) ==
    IF IsEngaged(emotions)
    THEN adaptations \o <<Plain("increase_difficulty"), Plain("university_content"),
                          Plain("mentorship_program")>>
    ELSE adaptations

\* if learning_state == 'struggling': ... elif learning_state == 'disengaged': ...
LearningStateRule(adaptations, learning_state) ==
    IF learning_state = "struggling" THEN Append(adaptations, Plain("peer_learning"))
    ELSE IF learning_state = "disengaged"
         THEN Append(adaptations, Plain("local_success_story"))
         ELSE adaptations

\* if quantum_state.get('collapsed'): adaptations.extend([...])
QuantumRule(adaptations, quantum_state) ==
    IF quantum_state.collapsed
    THEN adaptations \o
         <<Directive("collapse_optimal_style", quantum_state.optimal_style, 0),
           Directive("content_optimized", quantum_state.optimal_style, 0),
           Directive("confidence_level", "", FormatPercent(quantum_state.confidence))>>
    ELSE adaptations

\* generate_adaptations; phrase is what random.choice returns if it is called.
generate_adaptations(emotions, learning_state, quantum_state, phrase) ==
    QuantumRule(
        LearningStateRule(
            EngagedRule(
                ConfusedRule(
                    BoredRule(FrustratedRule(<<>>, emotions, phrase), emotions),
                    emotions),
                emotions),
            learning_state),
        quantum_state)

\* The body of a get-adaptations request or of an emotion_update event.
AdaptationData(emotions, learning_state) ==
    [json |-> TRUE, emotions |-> emotions, learning_state |-> learning_state]
NoData == [json |-> FALSE]

\* The arguments both handlers read from data.  emotions defaults to {}, the
\* dict with every key absent, which is how a body without 'emotions' is
\* written here; learning_state defaults to 'neutral'.
NoEmotions ==
    [key \in {"frustrated", "bored", "confused", "engaged"} |-> NoScore]
EmotionsOf(data) == data.emotions
LearningStateOf(data) == Get(data.learning_state, "neutral")

\* POST /api/get-adaptations.
get_adaptations_endpoint(data, phrase) ==
    /\ request' = [op |-> "get_adaptations", data |-> data]
    /\ UNCHANGED <<estimator, interactions, requests, threads>>
    /\ IF ~data.json
       THEN response' = [op |-> "get_adaptations", status |-> 500]
       ELSE response' =
                [op |-> "get_adaptations", status |-> 200,
                 adaptations |-> generate_adaptations(
                     EmotionsOf(data), LearningStateOf(data), get_state, phrase),
                 quantum_state |-> get_state]

\* The emotion_update socket event, answered with a broadcast.
handle_emotion_update(data, phrase) ==
    /\ request' = [op |-> "emotion_update", data |-> data]
    /\ UNCHANGED <<estimator, interactions, requests, threads>>
    /\ IF ~data.json
       THEN response' = [op |-> "error", status |-> 500]
       ELSE response' =
                [op |-> "adaptations_generated", status |-> 200,
                 adaptations |-> generate_adaptations(
                     EmotionsOf(data), LearningStateOf(data), get_state, phrase)]

(***************************************************************************)
(* EmotionDetector and POST /api/detect-emotion.  Scores are in hundredths.*)
(* A frame is what the libraries make of the uploaded bytes: whether the   *)
(* form has an 'image' file, what cv2.imdecode does with it, whether the   *)
(* cascade runs, the regions it finds (each given as the scores the model  *)
(* predicts for it, in the order of emotion_labels) and what the           *)
(* classification of a region does.  cv2.imdecode returns None for bytes   *)
(* that are no image ("none") and, depending on the OpenCV build, returns  *)
(* None or raises for an empty buffer ("raises").                          *)
(***************************************************************************)
\* get_neutral_emotions()
get_neutral_emotions ==
    [happy |-> 20, engaged |-> 30, confused |-> 10, frustrated |-> 10, bored |-> 10]

\* The learning_emotions dict detect_emotions builds from predictions[0].
LearningEmotions(emotion_scores) ==
    [happy |-> emotion_scores[1],
     engaged |-> RoundDiv(80 * emotion_scores[1] + 20 * emotion_scores[4], 100),
     confused |-> RoundDiv(60 * emotion_scores[2] + 40 * emotion_scores[5], 100),
     frustrated |-> emotion_scores[3],
     bored |-> emotion_scores[6]]

\* detect_emotions(face_image): any exception of preprocess_face or of
\* model.predict is caught and answered with the neutral emotions.
detect_emotions(emotion_scores, classifier) ==
    IF classifier = "ok" THEN LearningEmotions(emotion_scores)
    ELSE get_neutral_emotions

Frame(has_image, decode, cascade_ok, regions, classifier) ==
    [has_image |-> has_image, decode |-> decode, cascade_ok |-> cascade_ok,
     regions |-> regions, classifier |-> classifier]

\* The last of the regions in the place of the first.
ClassifiedLast(regions) ==
    IF Len(regions) > 0 THEN <<regions[Len(regions)]>> ELSE <<>>

\* The regions handed to detect_emotions: faces[0] when there is a face.
ClassifiedRegions(regions) ==
    IF Len(regions) > 0 THEN <<regions[1]>> ELSE <<>>

\* POST /api/detect-emotion.  The answer is given with the regions the
\* classifier was called on while it was made (classified).
detect_emotion_endpoint(frame) ==
    /\ request' = [op |-> "detect_emotion", frame |-> frame]
    /\ UNCHANGED <<estimator, interactions, requests, threads>>
    /\ response' =
         IF ~frame.has_image
         THEN [op |-> "detect_emotion", status |-> 400, error |-> "No image provided"]
         ELSE IF frame.decode = "raises"
         THEN [op |-> "detect_emotion", status |-> 500, error |-> "exception"]
         ELSE IF frame.decode = "none"
         THEN [op |-> "detect_emotion", status |-> 400, error |-> "Invalid image format"]
         ELSE IF ~frame.cascade_ok
         THEN [op |-> "detect_emotion", status |-> 500, error |-> "exception"]
         ELSE [op |-> "detect_emotion", status |-> 200,
               emotions |-> IF Len(frame.regions) > 0
                            THEN detect_emotions(ClassifiedRegions(frame.regions)[1],
                                                 frame.classifier)
                            ELSE get_neutral_emotions,
               face_detected |-> Len(frame.regions) > 0,
               classified |-> ClassifiedRegions(frame.regions)]

(***************************************************************************)
(* GET /api/student-analytics/<student_id>.  The table is kept as a bag,   *)
(* without the timestamps of its rows: of the rows of a student, the query *)
(* may return any QueryLimit of them when there are more, and the slice    *)
(* any RecentCount of those.  A column holding NULL has the value BadRate. *)
(* Averages are in thousandths.                                            *)
(***************************************************************************)
\* LIMIT 50 of the query, and the [:10] of recent_interactions.
QueryLimit == 50
RecentCount == 10

\* WHERE student_id = ?
StudentRows(student_id) ==
    LET keys == {row \in BagToSet(interactions) : row.student_id = student_id}
    IN  [row \in keys |-> interactions[row]]

\* A slice that keeps every row.
TakeAll(rows, n) == {rows}

\* The bags the first n rows of a result can be.
Take(rows, n) ==
    IF BagCardinality(rows) <= n THEN {rows}
    ELSE {some \in SubBag(rows) : BagCardinality(some) = n}

\* [row[column] for row in rows if row[column] is not None]: its sum and its
\* length, over the distinct rows keys of the bag rows.
RECURSIVE SumOf(_, _, _)
SumOf(rows, column, keys) ==
    IF keys = {} THEN 0
    ELSE LET row == CHOOSE r \in keys : TRUE
         IN  (IF row[column] = BadRate THEN 0 ELSE row[column] * rows[row])
                 + SumOf(rows, column, keys \ {row})
RECURSIVE LenOf(_, _, _)
LenOf(rows, column, keys) ==
    IF keys = {} THEN 0
    ELSE LET row == CHOOSE r \in keys : TRUE
         IN  (IF row[column] = BadRate THEN 0 ELSE rows[row])
                 + LenOf(rows, column, keys \ {row})

\* sum(values) / len(values) if values else 0
Average(rows, column) ==
    LET keys == DOMAIN rows IN
    IF LenOf(rows, column, keys) > 0
    THEN RoundDiv(SumOf(rows, column, keys) * 100, LenOf(rows, column, keys))
    ELSE 0

\* The analytics dict built from the fetched rows and the recent ones.
Analytics(fetched, recent) ==
    IF BagCardinality(fetched) > 0
    THEN [total_interactions |-> BagCardinality(fetched),
          avg_success_rate |-> Average(fetched, "success_rate"),
          avg_engagement |-> Average(fetched, "engagement_level"),
          quantum_state |-> get_state,
          recent_interactions |-> recent]
    ELSE [total_interactions |-> 0, avg_success_rate |-> 0, avg_engagement |-> 0,
          quantum_state |-> get_state, recent_interactions |-> EmptyBag]

\* The handler: db_ok is whether sqlite serves the connection and the query.
student_analytics_endpoint(student_id, db_ok) ==
    /\ request' = [op |-> "student_analytics", student_id |-> student_id,
                   db_ok |-> db_ok]
    /\ UNCHANGED <<estimator, interactions, requests, threads>>
    /\ IF ~db_ok
       THEN response' = [op |-> "student_analytics", status |-> 500]
       ELSE \E fetched \in Take(StudentRows(student_id), QueryLimit) :
                \E recent \in Take(fetched, RecentCount) :
                    response' = [op |-> "student_analytics", status |-> 200,
                                 analytics |-> Analytics(fetched, recent)]

(***************************************************************************)
(* background_analytics_processor, the daemon thread started at startup.   *)
(* The query keeps the rows of the last hour: the table being kept without *)
(* timestamps, these can be any part of it.                                *)
(***************************************************************************)
\* The rows of one student among rows.
GroupOf(rows, student_id) ==
    LET keys == {row \in BagToSet(rows) : row.student_id = student_id}
    IN  [row \in keys |-> rows[row]]

\* AVG(column) < 0.3 over a group: AVG skips the nulls, and is null, which
\* is below nothing, when nothing is left.
LowAverage(group, column) ==
    /\ LenOf(group, column, DOMAIN group) > 0
    /\ SumOf(group, column, DOMAIN group) < 3 * LenOf(group, column, DOMAIN group)

\* GROUP BY student_id HAVING AVG(success_rate) < 0.3 OR AVG(engagement_level) < 0.3
StrugglingStudents(recent) ==
    {student_id \in {row.student_id : row \in BagToSet(recent)} :
        \/ LowAverage(GroupOf(recent, student_id), "success_rate")
        \/ LowAverage(GroupOf(recent, student_id), "engagement_level")}

\* time.sleep(30), which opens the cycle
sleep_cycle ==
    /\ background.pc = "sleep"
    /\ background' = [background EXCEPT !.pc = "scan", !.waited = @ + CycleSeconds]
    /\ UNCHANGED <<estimator, interactions, request, response, requests, calls>>

\* The connection, the query, the message and the close, all succeeding.
scan_log ==
    /\ background.pc = "scan"
    /\ \E recent \in SubBag(interactions) :
           background' = [pc |-> "sleep", waited |-> 0, failed |-> FALSE,
                          alerts |-> Cardinality(StrugglingStudents(recent))]
    /\ UNCHANGED <<estimator, interactions, request, response, requests, calls>>

\* The connection or the query raises: the except clause prints
scan_fails ==
    /\ background.pc = "scan"
    /\ background' = [background EXCEPT !.pc = "backoff", !.waited = 0, !.failed = TRUE]
    /\ UNCHANGED <<estimator, interactions, request, response, requests, calls>>

\* An except clause that gives the loop up.
back_off_and_return ==
    /\ background.pc = "backoff"
    /\ background' = [background EXCEPT !.pc = "returned"]
    /\ UNCHANGED <<estimator, interactions, request, response, requests, calls>>

\* ... and sleeps 60 seconds; the loop goes round.
back_off ==
    /\ background.pc = "backoff"
    /\ background' = [background EXCEPT !.pc = "sleep", !.waited = @ + BackoffSeconds]
    /\ UNCHANGED <<estimator, interactions, request, response, requests, calls>>

\* The requests the specifications draw from.
UnrecognizedInputs == {"quiz_answer", NoKey}
QuantumUpdateRequests(types, rates, db) ==
    {NoJson} \cup
    {QuantumUpdateRequest("s1", t, r, NoRate, ok) : t \in types, r \in rates, ok \in db}

\* Every type with the rates 0, 1, absent (0.5) and unusable, the insert
\* succeeding; and a recognized and an unrecognized type with the insert
\* failing.
BroadRequests ==
    QuantumUpdateRequests(RecognizedTypes \cup UnrecognizedInputs,
                          {0, 10, NoRate, BadRate}, {TRUE})
    \cup QuantumUpdateRequests({"hands_on", "quiz_answer"}, {10}, {FALSE})

QuantumUpdate ==
    /\ requests < MaxRequests
    /\ \E data \in BroadRequests : quantum_update_endpoint(data)

\* One style reinforced many times over, with the rates 0, 0.3, 0.9 and 1.
DeepRequests ==
    QuantumUpdateRequests({"visual_content", "quiz_answer"}, {0, 3, 9, 10}, {TRUE})

DeepQuantumUpdate ==
    /\ requests < MaxDeepRequests
    /\ \E data \in DeepRequests : quantum_update_endpoint(data)

ForceCollapse == handle_quantum_collapse

Next == QuantumUpdate \/ ForceCollapse

Spec == Init /\ [][Next]_vars

NextDeep == DeepQuantumUpdate \/ ForceCollapse

SpecDeep == Init /\ [][NextDeep]_vars

\* The log specification: two students, rows with both rates given and rows
\* with both rates null, of a type that leaves the prior where it is; a
\* student's insert can fail, and the query can.
LogStudents == {"s1", "s2"}
LogRequests ==
    {QuantumUpdateRequest(s, "quiz_answer", r, r, TRUE) :
        s \in LogStudents, r \in {4, BadRate}}
    \cup {QuantumUpdateRequest("s1", "quiz_answer", 10, 4, FALSE)}

LogQuantumUpdate ==
    /\ requests < MaxLogRequests
    /\ \E data \in LogRequests : quantum_update_endpoint(data)

StudentAnalytics ==
    \E student_id \in LogStudents, db_ok \in BOOLEAN :
        student_analytics_endpoint(student_id, db_ok)

NextLog == LogQuantumUpdate \/ StudentAnalytics

SpecLog == Init /\ [][NextLog]_vars

\* The history specification: one student whose rows outnumber the limit of
\* the query, every request being answered 200 and its row inserted; the rows
\* carry success and engagement 0.0 or 1.0, in any order.
HistoryRequests ==
    {QuantumUpdateRequest("s1", "quiz_answer", r, r, TRUE) : r \in {0, 10}}

HistoryQuantumUpdate ==
    /\ requests < MaxHistoryRequests
    /\ \E data \in HistoryRequests : quantum_update_endpoint(data)

NextHistory == HistoryQuantumUpdate \/ StudentAnalytics

SpecHistory == Init /\ [][NextHistory]_vars

\* The bodies of the adaptation requests: every emotion below (or absent),
\* at and above the threshold of its rule, with every learning state; the
\* body with no key at all; and no body.
AdaptationEmotions ==
    [frustrated : {NoScore, 60, 70}, bored : {10, 60, 70},
     confused : {10, 70, 80}, engaged : {NoScore, 10, 80, 90}]
AdaptationRequests ==
    {NoData, AdaptationData(NoEmotions, NoKey)} \cup
    {AdaptationData(e, l) : e \in AdaptationEmotions,
                            l \in {"neutral", "struggling", "disengaged"}}

\* The phrases random.choice can return: it is called only by the
\* frustration rule.
PhrasesFor(data) ==
    IF data.json /\ IsFrustrated(EmotionsOf(data)) THEN EncouragementPhrases
    ELSE {"well_done"}

GetAdaptations ==
    \E data \in AdaptationRequests :
        \E phrase \in PhrasesFor(data) : get_adaptations_endpoint(data, phrase)

\* The bodies of the emotion_update events: every rule off or on.
EmotionEvents ==
    {NoData, AdaptationData(NoEmotions, NoKey)} \cup
    {AdaptationData(e, "struggling") :
        e \in [frustrated : {NoScore, 70}, bored : {10, 70},
               confused : {10, 80}, engaged : {10, 90}]}

EmotionUpdate ==
    \E data \in EmotionEvents :
        \E phrase \in PhrasesFor(data) : handle_emotion_update(data, phrase)

\* The frames: the scores of a region are those of a happy, of an angry and
\* of a surprised and fearful face.
RegionScores ==
    {<<90, 0, 0, 10, 0, 0, 0>>, <<0, 10, 80, 0, 0, 10, 0>>, <<5, 20, 0, 45, 25, 0, 5>>}
Frames ==
    {Frame(FALSE, "none", TRUE, <<>>, "ok")} \cup
    {Frame(TRUE, d, TRUE, <<>>, "ok") : d \in {"none", "raises"}} \cup
    {Frame(TRUE, "image", FALSE, <<>>, "ok")} \cup
    {Frame(TRUE, "image", TRUE, <<>>, c) : c \in {"ok", "predict_raises"}} \cup
    {Frame(TRUE, "image", TRUE, r, c) :
        r \in {<<a>> : a \in RegionScores}
              \cup {<<a, b>> : a \in RegionScores, b \in RegionScores},
        c \in {"ok", "preprocess_raises", "predict_raises"}}

DetectEmotion == \E frame \in Frames : detect_emotion_endpoint(frame)

\* One reinforcement of the visual style, so that the snapshot the rule
\* engine reads varies.
AdaptQuantumUpdate ==
    /\ requests < MaxAdaptRequests
    /\ quantum_update_endpoint(
           QuantumUpdateRequest("s1", "image_click", 10, NoRate, TRUE))

NextAdapt ==
    GetAdaptations \/ EmotionUpdate \/ DetectEmotion \/ ForceCollapse
        \/ AdaptQuantumUpdate \/ StudentAnalytics

SpecAdapt == Init /\ [][NextAdapt]_vars

\* The race specification: updates of the visual style served one after the
\* other, then one request in each of the two threads.
WarmUp ==
    /\ requests < MaxWarmUps
    /\ \A t \in Threads : calls[t].pc = "idle"
    /\ quantum_update_endpoint(
           QuantumUpdateRequest("s1", "visual_content", 10, NoRate, TRUE))
RaceRequests ==
    {QuantumUpdateRequest("s1", type, 10, NoRate, TRUE) :
        type \in {"visual_content", "audio_played", "quiz_answer"}}
BeginUpdate == \E t \in Threads, data \in RaceRequests : begin_update(t, data)
ReadStyle == \E t \in Threads : read_style(t)
WriteStyle == \E t \in Threads : write_style(t)
SumStyles == \E t \in Threads : sum_styles(t)
ReadForDivide == \E t \in Threads : read_for_divide(t)
WriteDivided == \E t \in Threads : write_divided(t)
TakeMax == \E t \in Threads : take_max(t)
CheckCollapse == \E t \in Threads : check_collapse(t)
SetCollapsed == \E t \in Threads : set_collapsed(t)
SetOptimalStyle == \E t \in Threads : set_optimal_style(t)
SetConfidence == \E t \in Threads : set_confidence(t)
Respond == \E t \in Threads : respond(t)

NextRace ==
    \/ WarmUp \/ BeginUpdate \/ ReadStyle \/ WriteStyle \/ SumStyles
    \/ ReadForDivide \/ WriteDivided \/ TakeMax \/ CheckCollapse
    \/ SetCollapsed \/ SetOptimalStyle \/ SetConfidence \/ Respond

SpecRace == Init /\ [][NextRace]_vars

\* The loop specification: the background thread next to a few requests of
\* two students, with low and with high rates.  The thread is scheduled
\* again and again, and its sleeps return.
LoopRequests ==
    {QuantumUpdateRequest(s, "hands_on", r, r, TRUE) :
        s \in LogStudents, r \in {2, 10}}
    \cup {QuantumUpdateRequest("s1", "quiz_answer", 10, BadRate, TRUE)}
LoopQuantumUpdate ==
    /\ requests < MaxLoopRequests
    /\ \E data \in LoopRequests : quantum_update_endpoint(data)
SleepCycle == sleep_cycle
ScanLog == scan_log
ScanFails == scan_fails
BackOff == back_off
AnalyticsLoop == SleepCycle \/ ScanLog \/ ScanFails \/ BackOff

NextLoop == LoopQuantumUpdate \/ SleepCycle \/ ScanLog \/ ScanFails \/ BackOff

SpecLoop == Init /\ [][NextLoop]_vars /\ WF_vars(AnalyticsLoop)

\* The long-run specification: a few updates of any style and success, then
\* the visual style reinforced over and over with success 1, with forced
\* collapses anywhere.
MixedRequests ==
    {QuantumUpdateRequest("s1", "visual_content", rate, NoRate, TRUE) : rate \in {0, 10}}
    \cup {QuantumUpdateRequest("s1", "hands_on", 10, NoRate, TRUE),
          QuantumUpdateRequest("s1", "audio_played", NoRate, NoRate, TRUE),
          QuantumUpdateRequest("s1", "quiz_answer", 10, NoRate, TRUE)}
LongRequests ==
    IF requests < MaxMixedRequests THEN MixedRequests
    ELSE {QuantumUpdateRequest("s1", "visual_content", 10, NoRate, TRUE)}
LongQuantumUpdate ==
    /\ requests < MaxLongRequests
    /\ \E data \in LongRequests : float_quantum_update_endpoint(data)

NextLong == LongQuantumUpdate \/ ForceCollapse

SpecLong == Init /\ [][NextLong]_vars

(***************************************************************************)
(* Properties of the learning-style estimator.                             *)
(***************************************************************************)

\* Two fixed-point numbers that differ by at most the rounding of one step.
WithinRounding(x, y) == x - y \in {0 - 1, 0, 1}

\* The request being served is a quantum-update with a JSON object.
IsUpdateRequest(req) == req.op = "quantum_update" /\ req.json
\* The interaction type and success rate update_quantum_state is given.
TypeOfRequest(req) == Get(req.interaction_type, "unknown")
RateOfRequest(req) == GetRate(req.success_rate, 5)

\* C1: after any sequence of update and forceCollapse calls from the prior,
\* the three probabilities sum to 1 within the rounding tolerance.
C1_ProbabilitiesSumToOne ==
    WithinRounding(Total(learning_styles), SCALE)

\* An update has just been served after a collapse, and the stored sum is
\* one rounding unit away from 1.
C1_Witness ==
    /\ response.op = "quantum_update" /\ response.status = 200
    /\ collapsed
    /\ StyleOf(TypeOfRequest(request)) # None
    /\ Total(learning_styles) # SCALE

\* C2: once collapsed, an update call leaves optimal_style and confidence as
\* they were, whatever it does to the probabilities.
C2_CollapseFrozenUnderUpdate ==
    [][(collapsed /\ response'.op = "quantum_update")
          => (optimal_style' = optimal_style /\ confidence' = confidence)]_vars

\* An update served after a collapse has made another style the maximum and
\* moved the winning probability away from the frozen confidence.
C2_Witness ==
    /\ response.op = "quantum_update" /\ response.status = 200
    /\ collapsed
    /\ ArgMax(learning_styles) # optimal_style
    /\ learning_styles[optimal_style] # confidence

\* C3: an update call collapses (collapsed goes from false to true, and
\* optimal_style and confidence are written) exactly when the maximum after
\* renormalisation is strictly above 0.65 and collapsed was false before.
C3_CollapseIffAboveThreshold ==
    [][response'.op = "quantum_update" =>
          LET fired == ~collapsed /\ collapsed'
              above == MaxProb(learning_styles') * 100 > 65 * SCALE
          IN  /\ fired <=> (above /\ ~collapsed)
              /\ fired => /\ learning_styles'[optimal_style'] = MaxProb(learning_styles')
                          /\ confidence' = MaxProb(learning_styles')
              /\ ~fired => (optimal_style' = optimal_style /\ confidence' = confidence)
      ]_vars

\* An update has left the maximum at exactly 0.65 and the state not collapsed.
C3_Witness ==
    /\ response.op = "quantum_update" /\ response.status = 200
    /\ StyleOf(TypeOfRequest(request)) # None
    /\ MaxProb(learning_styles) * 100 = 65 * SCALE
    /\ ~collapsed

\* The prior of __init__, and the probabilities after n consecutive
\* visual updates with success 0.9 from it.
Prior ==
    [style \in Styles |->
        IF style = "kinesthetic" THEN 34 * Resolution ELSE 33 * Resolution]
VisualRun ==
    LET Step(ls) == UpdatedStyles(ls, "visual_content", 9)
        a1 == Step(Prior)
        a2 == Step(a1)
        a3 == Step(a2)
        a4 == Step(a3)
        a5 == Step(a4)
        a6 == Step(a5)
    IN  <<a1, a2, a3, a4, a5, a6>>
AfterVisual(n) == IF n = 0 THEN Prior ELSE VisualRun[n]

\* The request of the scenario: a visual-mapped update with success 0.9.
IsVisualUpdate(req) ==
    /\ IsUpdateRequest(req)
    /\ StyleOf(TypeOfRequest(req)) = "visual"
    /\ RateOfRequest(req) = 9

\* C4 as stated: three consecutive visual updates with success 0.9 from the
\* prior put visual above 0.65 and collapse the state on visual.
C4_ThreeUpdatesCollapse ==
    (IsVisualUpdate(request) /\ response.status = 200
        /\ learning_styles = AfterVisual(3))
    => /\ learning_styles["visual"] * 100 > 65 * SCALE
       /\ collapsed
       /\ optimal_style = "visual"

\* C4 amended: from the prior, the first five such updates leave visual at or
\* below 0.65 (about 0.50 after the third) and collapsed false; the sixth
\* puts visual above 0.65 and collapses the state on visual.
C4_SixUpdatesCollapse ==
    [][\A n \in 0..5 :
          (learning_styles = AfterVisual(n) /\ ~collapsed
              /\ IsVisualUpdate(request') /\ response'.status = 200)
          => /\ learning_styles' = AfterVisual(n + 1)
             /\ (n + 1 = 3) => (learning_styles'["visual"] * 100 > 50 * SCALE
                                /\ learning_styles'["visual"] * 100 < 51 * SCALE)
             /\ IF n + 1 < 6
                THEN /\ learning_styles'["visual"] * 100 <= 65 * SCALE
                     /\ ~collapsed'
                ELSE /\ learning_styles'["visual"] * 100 > 65 * SCALE
                     /\ collapsed'
                     /\ optimal_style' = "visual"
                     /\ confidence' = learning_styles'["visual"]
      ]_vars

\* The sixth visual update has been served and the state has collapsed on it.
C4_Witness ==
    /\ IsVisualUpdate(request) /\ response.status = 200
    /\ learning_styles = AfterVisual(6)
    /\ collapsed
    /\ optimal_style = "visual"
    /\ confidence = learning_styles["visual"]

\* C5: the quantum_collapse event, in any state, sets collapsed, sets
\* optimal_style to a style of maximal current probability and confidence to
\* that probability, and leaves the probabilities alone.
C5_ForceCollapseRecomputes ==
    [][response'.op = "quantum_collapsed" =>
          /\ collapsed'
          /\ optimal_style' \in Styles
          /\ \A style \in Styles :
                 learning_styles[style] <= learning_styles[optimal_style']
          /\ confidence' = learning_styles[optimal_style']
          /\ learning_styles' = learning_styles
          /\ response'.collapse_data.optimal_style = optimal_style'
          /\ response'.collapse_data.confidence = confidence'
      ]_vars

\* A forced collapse below the threshold, after updates moved the maximum
\* away from the style of the prior.
C5_Witness ==
    /\ response.op = "quantum_collapsed"
    /\ requests > 0
    /\ optimal_style # ArgMax(Prior)
    /\ confidence * 100 <= 65 * SCALE
    /\ confidence = learning_styles[optimal_style]

\* C6: a quantum-update whose interaction type is outside the vocabulary
\* leaves the estimator as it was and appends exactly one row to the log.
C6_UnrecognizedIsNoOp ==
    [][(IsUpdateRequest(request') /\ StyleOf(TypeOfRequest(request')) = None)
          => /\ UNCHANGED estimator
             /\ BagCardinality(interactions') = BagCardinality(interactions) + 1
      ]_vars

\* The share of the style of interaction_type after an update with success_rate.
ShareAfter(ls, interaction_type, success_rate) ==
    UpdatedStyles(ls, interaction_type, success_rate)[StyleOf(interaction_type)]

C15_CollapseIsOneWay ==
    [][/\ collapsed => collapsed'
       /\ optimal_style # None => optimal_style' # None
      ]_vars

\* An update has been served after a collapse, and has left it in place.
C15_Witness ==
    /\ response.op = "quantum_update" /\ response.status = 200
    /\ requests > 0
    /\ collapsed
    /\ response.quantum_state.collapsed
    /\ response.quantum_state.optimal_style \in Styles

FirstMaximal(ls) ==
    IF ls["visual"] >= ls["auditory"] /\ ls["visual"] >= ls["kinesthetic"]
    THEN "visual"
    ELSE IF ls["auditory"] >= ls["kinesthetic"] THEN "auditory" ELSE "kinesthetic"

\* C17: at every collapse, by an update or forced, optimal_style is the
\* style of maximal probability in the vector of that moment, the first of
\* them in the order visual, auditory, kinesthetic when several are, and
\* confidence is the probability of that style.
C17_CollapsePicksFirstMaximal ==
    [][((~collapsed /\ collapsed') \/ response'.op = "quantum_collapsed")
          => /\ optimal_style' = FirstMaximal(learning_styles')
             /\ confidence' = learning_styles'[optimal_style']
      ]_vars

\* A forced collapse on a vector where visual and auditory are maximal and
\* equal: visual is picked.
C17_Witness ==
    /\ response.op = "quantum_collapsed"
    /\ requests > 0
    /\ learning_styles["visual"] = learning_styles["auditory"]
    /\ learning_styles["visual"] > learning_styles["kinesthetic"]
    /\ optimal_style = "visual"
    /\ confidence = learning_styles["visual"]

\* The divisor of the next update, whatever its type and its success, is
\* positive.
NeverDividesByZero ==
    \A interaction_type \in RecognizedTypes \cup {"unknown"}, success_rate \in 0..10 :
        FloatTotal(FloatReinforced(learning_styles, interaction_type, success_rate)) > 0

\* C19 as stated: after any updates with success in [0,1] and forced
\* collapses, every probability is strictly between 0 and 1, and the
\* divisor of an update is positive.
C19_ProbabilitiesStrictlyInside ==
    /\ \A style \in Styles :
           learning_styles[style] > 0 /\ learning_styles[style] < SCALE
    /\ NeverDividesByZero

\* C19 amended: every probability is strictly above 0 and at most 1 (a
\* style reinforced long enough is rounded to exactly 1), and the divisor
\* of an update is positive.
C19_ProbabilitiesPositive ==
    /\ \A style \in Styles :
           learning_styles[style] > 0 /\ learning_styles[style] <= SCALE
    /\ NeverDividesByZero

\* A run of visual updates has rounded visual to exactly 1, the two others
\* being positive still.
C19_Witness ==
    /\ response.op = "quantum_update" /\ response.status = 200
    /\ learning_styles["visual"] = SCALE
    /\ learning_styles["auditory"] > 0
    /\ learning_styles["kinesthetic"] > 0

(***************************************************************************)
(* Properties of the adaptation rule engine.                               *)
(***************************************************************************)

\* The rule table as the specification gives it: the rules in order, the
\* guard of each and the directives each contributes.
RuleOrder ==
    <<"frustrated", "bored", "confused", "engaged", "struggling", "disengaged",
      "collapsed">>
ScoreOrZero(emotions, key) == IF emotions[key] = NoScore THEN 0 ELSE emotions[key]
GuardHolds(rule, emotions, learning_state, quantum_state) ==
    CASE rule = "frustrated" -> ScoreOrZero(emotions, "frustrated") > 60
      [] rule = "bored" -> ScoreOrZero(emotions, "bored") > 60
      [] rule = "confused" -> ScoreOrZero(emotions, "confused") > 70
      [] rule = "engaged" -> ScoreOrZero(emotions, "engaged") > 80
      [] rule = "struggling" -> learning_state = "struggling"
      [] rule = "disengaged" -> learning_state = "disengaged"
      [] rule = "collapsed" -> quantum_state.collapsed
GroupTexts(rule) ==
    CASE rule = "frustrated" -> <<"calmer_voice_tone", "encouragement", "mindful_break">>
      [] rule = "bored" -> <<"gamification", "farming_simulation", "badges_leaderboard">>
      [] rule = "confused" -> <<"rural_analogies", "punjabi_step_by_step", "offline_review">>
      [] rule = "engaged" -> <<"increase_difficulty", "university_content", "mentorship_program">>
      [] rule = "struggling" -> <<"peer_learning">>
      [] rule = "disengaged" -> <<"local_success_story">>
      [] rule = "collapsed" -> <<"collapse_optimal_style", "content_optimized", "confidence_level">>
TrueGuards(emotions, learning_state, quantum_state) ==
    {rule \in {RuleOrder[i] : i \in 1..Len(RuleOrder)} :
        GuardHolds(rule, emotions, learning_state, quantum_state)}

\* The groups of the rules in guards, concatenated in rule order from rule i on.
RECURSIVE ConcatGroups(_, _)
ConcatGroups(guards, i) ==
    IF i > Len(RuleOrder) THEN <<>>
    ELSE (IF RuleOrder[i] \in guards THEN GroupTexts(RuleOrder[i]) ELSE <<>>)
             \o ConcatGroups(guards, i + 1)

\* Which literal each directive of an output is.
Texts(adaptations) == [i \in 1..Len(adaptations) |-> adaptations[i].text]
Range(seq) == {seq[i] : i \in 1..Len(seq)}

\* An adaptation request has been answered with a list of directives.
AdaptationsServed ==
    /\ response.op \in {"get_adaptations", "adaptations_generated"}
    /\ response.status = 200

\* The input of the scenario of C8.
ScenarioEmotions == [frustrated |-> 70, bored |-> 10, confused |-> 10, engaged |-> 10]

\* C8: the output is exactly the concatenation, in rule order, of the groups
\* whose guard holds (strict thresholds, an absent emotion counting as 0);
\* the scenario input yields exactly the three frustration directives.
C8_OutputIsGroupsInOrder ==
    AdaptationsServed =>
        LET emotions == EmotionsOf(request.data)
            learning_state == LearningStateOf(request.data)
            out == response.adaptations
        IN  /\ Texts(out) =
                   ConcatGroups(TrueGuards(emotions, learning_state, get_state), 1)
            /\ \A i \in 1..Len(out) :
                   /\ out[i].text = "encouragement"
                          => out[i].word \in EncouragementPhrases
                   /\ out[i].text \in {"collapse_optimal_style", "content_optimized"}
                          => out[i].word = optimal_style
            /\ (emotions = ScenarioEmotions /\ learning_state = "neutral" /\ ~collapsed)
                   => Texts(out) = <<"calmer_voice_tone", "encouragement", "mindful_break">>

\* The scenario request has been answered, with its three directives.
C8_Witness ==
    /\ response.op = "get_adaptations" /\ response.status = 200
    /\ EmotionsOf(request.data) = ScenarioEmotions
    /\ LearningStateOf(request.data) = "neutral"
    /\ ~collapsed
    /\ Len(response.adaptations) = 3

\* s is t with some elements left out.
RECURSIVE IsSubsequence(_, _)
IsSubsequence(s, t) ==
    IF s = <<>> THEN TRUE
    ELSE IF t = <<>> THEN FALSE
    ELSE IF Head(s) = Head(t) THEN IsSubsequence(Tail(s), Tail(t))
    ELSE IsSubsequence(s, Tail(t))

\* The snapshot of a fresh estimator.
FreshState ==
    [learning_styles |-> Prior, collapsed |-> FALSE, optimal_style |-> None,
     confidence |-> 0]

\* The earlier inputs an answered request is compared with: every request
\* body, with the estimator as it is now or fresh, whose true guards are
\* those of the answered request but one.
EnablesOneMoreGuard(data1, quantum_state1) ==
    LET guards1 == TrueGuards(EmotionsOf(data1), LearningStateOf(data1), quantum_state1)
        guards2 == TrueGuards(EmotionsOf(request.data),
                              LearningStateOf(request.data), get_state)
    IN  guards1 \subseteq guards2 /\ Cardinality(guards2 \ guards1) = 1
EarlierInputs ==
    {in \in (AdaptationRequests \ {NoData}) \X {get_state, FreshState} :
        EnablesOneMoreGuard(in[1], in[2])}
EarlierOutputs(in) ==
    {generate_adaptations(EmotionsOf(in[1]), LearningStateOf(in[1]), in[2], phrase) :
        phrase \in EncouragementPhrases}
NewGuard(in) ==
    CHOOSE rule \in TrueGuards(EmotionsOf(request.data),
                               LearningStateOf(request.data), get_state) :
        rule \notin TrueGuards(EmotionsOf(in[1]), LearningStateOf(in[1]), in[2])

\* C9 as stated: when the second input makes one more guard true and keeps
\* the others, every directive of the first output is in the second output,
\* in the same relative order, next to the directives of the new guard.
C9_NoDirectiveRemoved ==
    AdaptationsServed =>
        \A in \in EarlierInputs : \A out1 \in EarlierOutputs(in) :
            /\ IsSubsequence(out1, response.adaptations)
            /\ Len(response.adaptations) = Len(out1) + Len(GroupTexts(NewGuard(in)))

\* C9 amended: the same of the directives taken as the literals they are, the
\* encouragement phrase being drawn anew on every call: the literals of the
\* first output are in the second in the same relative order, the rest of
\* the second output is the group of the new guard, and every directive
\* without a drawn phrase is in the second output unchanged.
C9_GroupsAreAdded ==
    AdaptationsServed =>
        \A in \in EarlierInputs : \A out1 \in EarlierOutputs(in) :
            LET out2 == response.adaptations IN
            /\ IsSubsequence(Texts(out1), Texts(out2))
            /\ Len(out2) = Len(out1) + Len(GroupTexts(NewGuard(in)))
            /\ Range(Texts(out2)) =
                   Range(Texts(out1)) \cup Range(GroupTexts(NewGuard(in)))
            /\ \A i \in 1..Len(out1) :
                   out1[i].text # "encouragement" => out1[i] \in Range(out2)

\* A request that is frustrated and confused has been answered after a
\* collapse: each of its three guards can be the one more.
C9_Witness ==
    /\ AdaptationsServed
    /\ TrueGuards(EmotionsOf(request.data), LearningStateOf(request.data), get_state)
           = {"frustrated", "confused", "collapsed"}
    /\ Cardinality(EarlierInputs) >= 3

(***************************************************************************)
(* Properties of the emotion inference path.                               *)
(***************************************************************************)

\* The image is empty or corrupt, or detection, preprocessing or
\* classification fails on it.
InferenceFails(frame) ==
    /\ frame.has_image
    /\ \/ frame.decode # "image"
       \/ ~frame.cascade_ok
       \/ (Len(frame.regions) > 0 /\ frame.classifier # "ok")

\* C10: whenever inference fails, the answer is a success carrying exactly
\* the neutral fallback vector, with face_detected false.
C10_FailureYieldsNeutral ==
    (request.op = "detect_emotion" /\ InferenceFails(request.frame))
        => /\ response.status = 200
           /\ response.emotions = get_neutral_emotions
           /\ response.face_detected = FALSE

\* The image decodes and the face locator returns its regions.
LocatorReturns(frame) ==
    frame.has_image /\ frame.decode = "image" /\ frame.cascade_ok

\* C18: for an image that decodes, face_detected is false exactly when the
\* locator returns no region; the emotions are then the neutral vector
\* {happy 0.2, engaged 0.3, confused 0.1, frustrated 0.1, bored 0.1} and the
\* classifier is not called; with one region or more, the classifier is
\* called on the first region only and face_detected is true.
C18_FirstRegionOrNeutral ==
    (request.op = "detect_emotion" /\ LocatorReturns(request.frame)) =>
        LET regions == request.frame.regions IN
        /\ response.status = 200
        /\ response.face_detected = FALSE <=> regions = <<>>
        /\ regions = <<>> =>
               /\ response.emotions =
                      [happy |-> 20, engaged |-> 30, confused |-> 10,
                       frustrated |-> 10, bored |-> 10]
               /\ response.classified = <<>>
        /\ regions # <<>> =>
               /\ response.face_detected = TRUE
               /\ response.classified = <<regions[1]>>
               /\ response.emotions =
                      detect_emotions(regions[1], request.frame.classifier)

\* An image with two different faces has been answered with the emotions
\* of the first, which are not those of the second.
C18_Witness ==
    /\ request.op = "detect_emotion" /\ LocatorReturns(request.frame)
    /\ Len(request.frame.regions) = 2
    /\ request.frame.classifier = "ok"
    /\ response.emotions = LearningEmotions(request.frame.regions[1])
    /\ response.emotions # LearningEmotions(request.frame.regions[2])
    /\ response.face_detected

(***************************************************************************)
(* Properties of the interaction log and of the analytics.                 *)
(***************************************************************************)

\* C11: a failure of the log, on the insert of a quantum-update or on the
\* query of student-analytics, never fails the request: the answer is a
\* success, and that of quantum-update reports the estimator as the update
\* left it.
C11_LogFailureNeverFailsRequest ==
    /\ (IsUpdateRequest(request) /\ ~request.db_ok
            /\ ~(StyleOf(TypeOfRequest(request)) # None
                    /\ RateOfRequest(request) = BadRate))
           => (response.status = 200 /\ response.quantum_state = get_state)
    /\ (request.op = "student_analytics" /\ ~request.db_ok)
           => response.status = 200

\* The rows of the student an analytics request names.
RequestedRows == StudentRows(request.student_id)
\* Every rate and engagement stored for the student is null.
AllNull(rows) ==
    \A row \in BagToSet(rows) :
        row.success_rate = BadRate /\ row.engagement_level = BadRate

\* C12: analytics for a student without rows answers success with a total
\* of 0, both averages 0 and no recent interactions; for any student the
\* recent interactions are at most 10, and both averages are 0 when every
\* stored value is null.
C12_AnalyticsOfEmptyAndNull ==
    (request.op = "student_analytics" /\ request.db_ok) =>
        /\ response.status = 200
        /\ BagCardinality(response.analytics.recent_interactions) <= 10
        /\ response.analytics.recent_interactions \sqsubseteq RequestedRows
        /\ BagCardinality(RequestedRows) = 0 =>
               /\ response.analytics.total_interactions = 0
               /\ response.analytics.avg_success_rate = 0
               /\ response.analytics.avg_engagement = 0
               /\ response.analytics.recent_interactions = EmptyBag
        /\ AllNull(RequestedRows) =>
               /\ response.analytics.avg_success_rate = 0
               /\ response.analytics.avg_engagement = 0

\* Analytics answered for a student with eleven rows, every value null,
\* while the other student has none.
C12_Witness ==
    /\ request.op = "student_analytics" /\ response.status = 200
    /\ BagCardinality(RequestedRows) > 10
    /\ AllNull(RequestedRows)
    /\ response.analytics.total_interactions = BagCardinality(RequestedRows)
    /\ BagCardinality(response.analytics.recent_interactions) = 10
    /\ BagCardinality(interactions) = BagCardinality(RequestedRows)

\* C21: for every student, the total_interactions that student-analytics
\* reports is the number of rows the quantum-update requests have inserted
\* for the student, however many these are, and both averages are those of
\* all of these rows.
C21_TotalCountsEveryRecord ==
    (request.op = "student_analytics" /\ request.db_ok) =>
        /\ response.status = 200
        /\ response.analytics.total_interactions = BagCardinality(RequestedRows)
        /\ response.analytics.avg_success_rate
               = Average(RequestedRows, "success_rate")
        /\ response.analytics.avg_engagement
               = Average(RequestedRows, "engagement_level")

(***************************************************************************)
(* Properties of concurrent update calls.                                  *)
(***************************************************************************)

\* The result of the calls of t1 and t2 run one after the other, either
\* first, on the probabilities both began with.
SerialResult(first, second) ==
    UpdatedStyles(
        UpdatedStyles(calls[first].began_with, calls[first].interaction_type,
                      calls[first].success_rate),
        calls[second].interaction_type, calls[second].success_rate)
BothDone == \A t \in Threads : calls[t].pc = "done"

\* C13: a call that no other call overlaps leaves the probabilities of a
\* serial run; two calls interleaved at their reads and writes can leave
\* probabilities that are the result of neither serial order and do not
\* sum to 1 (C13_Witness).
C13_OnlyOverlapDiverges ==
    \A t \in Threads :
        (calls[t].pc \in {"max", "check"} /\ calls[t].alone)
            => learning_styles =
                   UpdatedStyles(calls[t].began_with, calls[t].interaction_type,
                                 calls[t].success_rate)

\* Both calls began on the same probabilities and have answered; what they
\* left is the result of neither order, and its sum is more than 0.05 away
\* from 1.
C13_Witness ==
    /\ BothDone
    /\ calls["t1"].began_with = calls["t2"].began_with
    /\ learning_styles # SerialResult("t1", "t2")
    /\ learning_styles # SerialResult("t2", "t1")
    /\ \/ Total(learning_styles) * 100 < 95 * SCALE
       \/ Total(learning_styles) * 100 > 105 * SCALE

\* C20: in a run of update calls, interleaved or not, at most one call
\* enters trigger_collapse and writes optimal_style and confidence.
C20_CollapseFiresOnce ==
    Cardinality({t \in Threads : calls[t].fired}) <= 1

(***************************************************************************)
(* Properties of the background loop.                                      *)
(***************************************************************************)

\* C14: the background loop never ends: a cycle whose scan of the log
\* raises is followed by a sleep of 60 seconds (the sleep that opens a
\* cycle is 30) and then by another cycle, so that after every failure a
\* scan is eventually attempted again; no step of the loop writes the
\* estimator or the log.
C14_LoopSurvivesFailure ==
    /\ [](background.pc \in {"sleep", "scan", "backoff"})
    /\ [][background' # background =>
             /\ UNCHANGED <<estimator, interactions>>
             /\ background.pc = "sleep" =>
                    /\ background'.pc = "scan"
                    /\ background'.waited = background.waited + 30
             /\ (background.pc = "scan" /\ background'.failed) =>
                    background'.pc = "backoff"
             /\ background.pc = "backoff" =>
                    /\ background'.pc = "sleep"
                    /\ background'.waited = background.waited + 60
         ]_vars
    /\ (background.pc = "backoff") ~> (background.pc = "scan")

\* A scan is attempted after the scan before it failed, with rows in the log.
C14_Witness ==
    /\ background.pc = "scan"
    /\ background.failed
    /\ background.waited = 90
    /\ BagCardinality(interactions) > 0

====
